---- MODULE Spec2Model ----
(***************************************************************************)
(* Model of test_client/siphog_client.py: SmoothSiPhogClient, a terminal   *)
(* client that reads comma-separated telemetry from a TCP socket, frames   *)
(* it into six-field records and repaints a fixed dashboard.               *)
(*                                                                         *)
(* Text is modelled as sequences of one-character strings.  Time is        *)
(* modelled in integer ticks, TicksPerSecond ticks to one second of        *)
(* time.time().  Floating-point values are modelled as exact decimals.     *)
(***************************************************************************)
EXTENDS Integers, Sequences, FiniteSets, TLC

VARIABLES
    pc,                  \* position of run(): see PcValues
    socket,              \* self.socket: "None" or "socket"
    fd,                  \* the OS socket behind it: none/unconnected/connected/closed
    running,             \* self.running
    data_count,          \* self.data_count
    start_time,          \* self.start_time ("None" until run() sets it)
    rate_history,        \* self.rate_history, a deque(maxlen=50)
    display_initialized, \* self.display_initialized
    buffer,              \* the local variable buffer of run()
    display,             \* the terminal cells update_field writes, by (row, col)
    console,             \* what was printed besides cell updates, in order
    summary,             \* the figures of the session summary, once printed
    feed,                \* chunks the server will still send (in flight)
    ticks,               \* steps the clock takes at its next reads
    now,                 \* the value the last time.time() returned
    received,            \* history: the chunks recv has returned, in order
    consumed,            \* history: how many characters left the buffer front
    rendered,            \* history: the records update_display was called with
    last,                \* history: the step taken last
    connects,            \* history: how many times connect() was called
    candidate            \* history: the line the last extraction step took

vars == << pc, socket, fd, running, data_count, start_time, rate_history,
           display_initialized, buffer, display, console, summary,
           feed, ticks, now, received, consumed, rendered, last,
           connects, candidate >>

-----------------------------------------------------------------------------
(* Bounds of the model and constants of the program.                       *)

MaxChunks == 3
LongRecords == 52
MaxTicks == 4
TicksPerSecond == 100
HistoryMax == 50
RecvSize == 1024

-----------------------------------------------------------------------------
(* Text helpers: Python's str operations on sequences of characters.       *)

NL == "\n"
Comma == ","
BadByte == "#"      \* a byte that is not valid UTF-8 (stands for 0xFF)

Whitespace == {" ", "\n", "\r", "\t"}
Digits == {"0", "1", "2", "3", "4", "5", "6", "7", "8", "9"}

DigitVal(c) ==
    CASE c = "0" -> 0 [] c = "1" -> 1 [] c = "2" -> 2 [] c = "3" -> 3
      [] c = "4" -> 4 [] c = "5" -> 5 [] c = "6" -> 6 [] c = "7" -> 7
      [] c = "8" -> 8 [] c = "9" -> 9

Max(a, b) == IF a >= b THEN a ELSE b
Min(a, b) == IF a <= b THEN a ELSE b

RECURSIVE Pow10(_)
Pow10(n) == IF n = 0 THEN 1 ELSE 10 * Pow10(n - 1)

\* c in s
Contains(s, c) == \E i \in 1..Len(s) : s[i] = c

\* s.find(c) + 1, for a character s contains
IndexOf(s, c) == CHOOSE i \in 1..Len(s) : s[i] = c /\ \A j \in 1..(i - 1) : s[j] # c

\* s.split(c, 1) for a character s contains: <<head, rest>>
SplitOnce(s, c) ==
    LET i == IndexOf(s, c)
    IN  << SubSeq(s, 1, i - 1), SubSeq(s, i + 1, Len(s)) >>

\* s.split(c): always at least one part
RECURSIVE Split(_, _)
Split(s, c) ==
    IF ~Contains(s, c) THEN << s >>
    ELSE LET p == SplitOnce(s, c) IN << p[1] >> \o Split(p[2], c)

\* c.join(parts)
RECURSIVE Join(_, _)
Join(parts, c) ==
    IF Len(parts) = 0 THEN << >>
    ELSE IF Len(parts) = 1 THEN parts[1]
    ELSE parts[1] \o << c >> \o Join(Tail(parts), c)

\* s.strip()
RECURSIVE LStrip(_)
LStrip(s) ==
    IF Len(s) > 0 /\ s[1] \in Whitespace THEN LStrip(Tail(s)) ELSE s

RECURSIVE RStrip(_)
RStrip(s) ==
    IF Len(s) > 0 /\ s[Len(s)] \in Whitespace
    THEN RStrip(SubSeq(s, 1, Len(s) - 1)) ELSE s

Strip(s) == RStrip(LStrip(s))

\* ''.join(chunks)
RECURSIVE Concat(_)
Concat(ss) == IF Len(ss) = 0 THEN << >> ELSE Head(ss) \o Concat(Tail(ss))

-----------------------------------------------------------------------------
(* Numbers.  A float is <<"fin", m, e>> for the decimal m / 10^e (trailing *)
(* zeros of the fraction dropped, so "1.500" and "1.5" are one value),     *)
(* <<"nan">>, or <<"inf", sign>>.  FloatError is float() raising           *)
(* ValueError.  The literals covered are those over digits, sign, point    *)
(* and the lower-case words nan, inf, infinity; exponents and underscores  *)
(* do not occur in the inputs of the model.                                *)

FloatError == << "error" >>
NaN == << "nan" >>
Inf(sign) == << "inf", sign >>

RECURSIVE Normalize(_, _)
Normalize(m, e) ==
    IF e > 0 /\ m % 10 = 0 THEN Normalize(m \div 10, e - 1) ELSE << "fin", m, e >>

\* the digits of s read as a natural number
RECURSIVE DigitsVal(_)
DigitsVal(s) ==
    IF Len(s) = 0 THEN 0
    ELSE 10 * DigitsVal(SubSeq(s, 1, Len(s) - 1)) + DigitVal(s[Len(s)])

IsDecimal(s) ==
    /\ \A i \in 1..Len(s) : s[i] \in Digits \cup {"."}
    /\ Cardinality({i \in 1..Len(s) : s[i] = "."}) <= 1
    /\ \E i \in 1..Len(s) : s[i] \in Digits

DecimalVal(s) ==
    IF Contains(s, ".")
    THEN LET p == SplitOnce(s, ".")
         IN  << DigitsVal(p[1] \o p[2]), Len(p[2]) >>
    ELSE << DigitsVal(s), 0 >>

\* float(tok)
ParseFloat(tok) ==
    LET s    == Strip(tok)
        neg  == Len(s) > 0 /\ s[1] = "-"
        sgn  == IF neg THEN -1 ELSE 1
        body == IF Len(s) > 0 /\ s[1] \in {"+", "-"} THEN Tail(s) ELSE s
    IN  IF body = << "n", "a", "n" >> THEN NaN
        ELSE IF body \in { << "i", "n", "f" >>,
                           << "i", "n", "f", "i", "n", "i", "t", "y" >> }
             THEN Inf(sgn)
        ELSE IF IsDecimal(body)
             THEN LET d == DecimalVal(body) IN Normalize(sgn * d[1], d[2])
        ELSE FloatError

IsFinite(v) == v[1] = "fin"

-----------------------------------------------------------------------------
(* parse_data                                                              *)

\* None is << >>, and a value v that may be None is << v >>
None == << >>
Some(v) == << v >>

\* self.data_keys
data_keys ==
    << "SLED_Current (mA)", "Photo Current (uA)", "SLED_Temp (C)",
       "Target SAG_PWR (V)", "SAG_PWR (V)", "TEC_Current (mA)" >>

\* faulty variant: the values bound in reverse order
ZipMutantSwapped(keys, values) ==
    [ k \in { keys[i] : i \in 1..Min(Len(keys), Len(values)) } |->
        values[Len(keys) + 1 - (CHOOSE i \in 1..Len(keys) : keys[i] = k)] ]

\* dict(zip(keys, values)): the i-th key is bound to the i-th value
Zip(keys, values) ==
    [ k \in { keys[i] : i \in 1..Min(Len(keys), Len(values)) } |->
        values[CHOOSE i \in 1..Min(Len(keys), Len(values)) : keys[i] = k] ]

\* parse_data(data_str): a dict, or None
ParseData(data_str) ==
    LET clean_data == Strip(data_str)
        tokens     == Split(clean_data, Comma)
        values     == [ i \in 1..Len(tokens) |-> ParseFloat(Strip(tokens[i])) ]
    IN  IF clean_data = << >> THEN None
        ELSE IF \E i \in 1..Len(tokens) : values[i] = FloatError THEN None
        ELSE IF Len(values) = 6 THEN Some(Zip(data_keys, values))
        ELSE None

-----------------------------------------------------------------------------
(* calculate_rate and the formatting of the cells                          *)

\* a / b rounded to the nearest integer, ties to even (b > 0)
RoundDiv(a, b) ==
    LET q == a \div b
        r == a % b
    IN  IF 2 * r < b THEN q
        ELSE IF 2 * r > b THEN q + 1
        ELSE IF q % 2 = 0 THEN q ELSE q + 1

\* f"{v:8.<d>f}": the value in units of 10^-d, or the words nan / inf
FormatFixed(v, d) ==
    IF v[1] = "fin"
    THEN IF v[3] <= d THEN << "fixed", d, v[2] * Pow10(d - v[3]) >>
         ELSE << "fixed", d, RoundDiv(v[2], Pow10(v[3] - d)) >>
    ELSE v

\* calculate_rate() on a history h: the rate per second as << num, den >>
\* faulty variant: the quotient taken whenever the span is not zero
CalculateRateMutantUnguarded(h) ==
    IF Len(h) < 2 THEN << 0, 1 >>
    ELSE LET time_span == h[Len(h)] - h[1]
         IN  IF time_span > 0 THEN << (Len(h) - 1) * TicksPerSecond, time_span >>
             ELSE IF time_span < 0
             THEN << (1 - Len(h)) * TicksPerSecond, 0 - time_span >>
             ELSE << 0, 1 >>

\* faulty variant: the entries counted, not the intervals between them
CalculateRateMutantEntries(h) ==
    IF Len(h) < 2 THEN << 0, 1 >>
    ELSE LET time_span == h[Len(h)] - h[1]
         IN  IF time_span > 0 THEN << Len(h) * TicksPerSecond, time_span >>
             ELSE << 0, 1 >>

CalculateRate(h) ==
    IF Len(h) < 2 THEN << 0, 1 >>
    ELSE LET time_span == h[Len(h)] - h[1]
         IN  IF time_span > 0 THEN << (Len(h) - 1) * TicksPerSecond, time_span >>
             ELSE << 0, 1 >>

\* f"{rate:.1f} Hz"
FormatRate(rate) == << "fixed", 1, RoundDiv(rate[1] * 10, rate[2]) >>

\* the status indicator of update_display
\* faulty variant: the thresholds inclusive
StatusOfMutantInclusive(rate) ==
    IF rate[1] >= 30 * rate[2] THEN "Excellent"
    ELSE IF rate[1] >= 10 * rate[2] THEN "Good"
    ELSE "Slow"

StatusOf(rate) ==
    IF rate[1] > 30 * rate[2] THEN "Excellent"
    ELSE IF rate[1] > 10 * rate[2] THEN "Good"
    ELSE "Slow"

\* rate_history.append(t) on a deque(maxlen=HistoryMax)
\* faulty variant: a deque without maxlen
DequeAppendMutantUnbounded(h, t) == Append(h, t)

DequeAppend(h, t) ==
    IF Len(h) >= HistoryMax THEN Append(Tail(h), t) ELSE Append(h, t)

-----------------------------------------------------------------------------
(* The terminal                                                            *)

TimeCell == << 4, 8 >>
ServerCell == << 5, 10 >>
CountCell == << 6, 12 >>
RateCell == << 6, 35 >>
SledCurrentCell == << 9, 18 >>
SledTempCell == << 10, 15 >>
TecCurrentCell == << 11, 17 >>
PhotoCurrentCell == << 14, 19 >>
SagPowerCell == << 15, 15 >>
TargetSagPowerCell == << 16, 19 >>
StatusCell == << 18, 16 >>

Cells ==
    { TimeCell, ServerCell, CountCell, RateCell, SledCurrentCell, SledTempCell,
      TecCurrentCell, PhotoCurrentCell, SagPowerCell, TargetSagPowerCell,
      StatusCell }

Blank == << "blank" >>
Text(t) == << "text", t >>

\* the screen before anything is drawn
NoDisplay == [ c \in Cells |-> Blank ]

\* the frame init_display prints: every dynamic cell blank, the status
\* line reading "Streaming..."
FrameDisplay == [ c \in Cells |-> IF c = StatusCell THEN Text("Streaming...") ELSE Blank ]

\* init_display(): << display_initialized', console', display' >>
\* faulty variant: the guard inverted
InitDisplayMutantInverted(initialized, cons, disp) ==
    IF ~initialized THEN << initialized, cons, disp >>
    ELSE << TRUE, Append(cons, "frame"), FrameDisplay >>

InitDisplay(initialized, cons, disp) ==
    IF initialized THEN << initialized, cons, disp >>
    ELSE << TRUE, Append(cons, "frame"), FrameDisplay >>

\* the cells update_display(data) writes, for the count, the time read and
\* the rate computed (datetime.now() of line 134 shows the time of line 131)
DisplayOf(disp, data, count, t, rate) ==
    [ disp EXCEPT
        ![TimeCell] = << "time", t >>,
        ![ServerCell] = Text("host:port"),
        ![CountCell] = << "int", count >>,
        ![RateCell] = FormatRate(rate),
        ![SledCurrentCell] = FormatFixed(data["SLED_Current (mA)"], 2),
        ![SledTempCell] = FormatFixed(data["SLED_Temp (C)"], 2),
        ![TecCurrentCell] = FormatFixed(data["TEC_Current (mA)"], 2),
        ![PhotoCurrentCell] = FormatFixed(data["Photo Current (uA)"], 2),
        ![SagPowerCell] = FormatFixed(data["SAG_PWR (V)"], 4),
        ![TargetSagPowerCell] = FormatFixed(data["Target SAG_PWR (V)"], 4),
        ![StatusCell] = Text(StatusOf(rate)) ]

-----------------------------------------------------------------------------
(* Inputs: what the server sends, cut into the chunks recv returns, and    *)
(* the steps of the clock.                                                 *)

\* "a,b,c" from the one-character tokens a, b, c
Csv(chars) == Join([ i \in 1..Len(chars) |-> << chars[i] >> ], Comma)

ValidLine == Csv(<< "1", "2", "3", "4", "5", "6" >>) \o << NL >>
BareRecord == Csv(<< "7", "8", "9", "7", "8", "9" >>)
TailTokens == << Comma >> \o Csv(<< "1", "2", "3" >>)
ShortLine == Csv(<< "x", "2" >>) \o << NL >>
NonFiniteLine ==
    << "n", "a", "n", Comma >> \o Csv(<< "2", "3", "4", "5" >>)
        \o << Comma, "i", "n", "f", NL >>
SpacedLine ==
    << " ", "1", ".", "5", "0", " ", Comma >> \o Csv(<< "2", "3", "4", "5", "6" >>)
        \o << "\r", NL >>
OpenRecord == Csv(<< "1", "2", "3", "4", "5" >>) \o << Comma >>
LastField == << "6", NL >>
LongLine == Csv(<< "1", "2", "3", "4", "5", "6", "7" >>) \o << NL >>
BadTokenLine == Csv(<< "1", "2", "3", "x", "5", "6" >>) \o << NL >>
Undecodable == << "1", Comma, BadByte >>

RichChunks ==
    { ValidLine, BareRecord, TailTokens, ShortLine, NonFiniteLine, SpacedLine,
      OpenRecord, LastField, LongLine, BadTokenLine, Undecodable }

\* "10.5,2.3,25.0,1.500,1.480,50.2\n"
ExampleLine ==
    Join(<< << "1", "0", ".", "5" >>, << "2", ".", "3" >>,
            << "2", "5", ".", "0" >>, << "1", ".", "5", "0", "0" >>,
            << "1", ".", "4", "8", "0" >>, << "5", "0", ".", "2" >> >>, Comma)
        \o << NL >>

SplitLines == { ExampleLine, ValidLine }

\* the sequences over S of length at most n
SeqsUpTo(S, n) == UNION { [ 1..k -> S ] : k \in 0..n }

ClockSteps == { -1, 0, 3, 4, 10 }

\* any chunks, a clock stepping by one
RichInputs ==
    { [ feed |-> f, ticks |-> << >> ] : f \in SeqsUpTo(RichChunks, MaxChunks) }

\* one line cut in two at every place
SplitInputs ==
    UNION { { [ feed |-> << SubSeq(l, 1, k), SubSeq(l, k + 1, Len(l)) >>,
                ticks |-> << >> ] : k \in 1..(Len(l) - 1) } : l \in SplitLines }

\* a long run of valid lines, one per chunk
LongInputs ==
    { [ feed |-> [ i \in 1..LongRecords |-> ValidLine ], ticks |-> << >> ] }

\* valid lines under every clock: the read of start_time, then one read
\* for each record
ClockInputs ==
    { [ feed |-> f, ticks |-> << 0 >> \o t ] :
        f \in { << ValidLine, ValidLine \o ValidLine, ValidLine >> },
        t \in [ 1..MaxTicks -> ClockSteps ] }

\* valid lines one second apart
SecondsInputs ==
    { [ feed |-> << ValidLine, ValidLine, ValidLine \o ValidLine >>,
        ticks |-> << 0, 0, TicksPerSecond, TicksPerSecond, TicksPerSecond >> ] }

Inputs ==
    RichInputs \cup SplitInputs \cup LongInputs \cup ClockInputs \cup SecondsInputs

\* time.time(): << the value read, the steps left >>
ReadClock(t, steps) ==
    IF steps = << >> THEN << t + 1, steps >> ELSE << t + Head(steps), Tail(steps) >>

-----------------------------------------------------------------------------
(* The state machine of run()                                              *)

PcValues ==
    { "DISCONNECTED", "RETURNED", "STREAMING", "EXTRACTING",
      "CLOSED_BY_PEER", "ERROR", "INTERRUPTED", "TERMINATED" }

\* the state after SmoothSiPhogClient(host, port), before run()
Init ==
    /\ pc = "DISCONNECTED"
    /\ socket = "None"
    /\ fd = "none"
    /\ running = FALSE
    /\ data_count = 0
    /\ start_time = None
    /\ rate_history = << >>
    /\ display_initialized = FALSE
    /\ buffer = << >>
    /\ display = NoDisplay
    /\ console = << >>
    /\ summary = None
    /\ \E in \in Inputs : feed = in.feed /\ ticks = in.ticks
    /\ now = 0
    /\ received = << >>
    /\ consumed = 0
    /\ rendered = << >>
    /\ last = "Init"
    /\ connects = 0
    /\ candidate = None

\* faulty variant: a failed connect is tried again
ConnectFailMutantRetry ==
    /\ pc = "DISCONNECTED"
    /\ connects < 2
    /\ socket' = "socket"
    /\ fd' = "unconnected"
    /\ console' = Append(console, "connect_failed")
    /\ pc' = IF connects = 0 THEN "DISCONNECTED" ELSE "RETURNED"
    /\ last' = "ConnectFail"
    /\ UNCHANGED << running, data_count, start_time, rate_history,
                    display_initialized, buffer, display, summary, feed, ticks,
                    now, received, consumed, rendered, candidate >>
    /\ connects' = connects + 1

\* connect() fails: the socket object of line 44 stays in self.socket
ConnectFail ==
    /\ pc = "DISCONNECTED"
    /\ socket' = "socket"
    /\ fd' = "unconnected"
    /\ console' = Append(console, "connect_failed")
    /\ pc' = "RETURNED"
    /\ last' = "ConnectFail"
    /\ UNCHANGED << running, data_count, start_time, rate_history,
                    display_initialized, buffer, display, summary, feed, ticks,
                    now, received, consumed, rendered, candidate >>
    /\ connects' = connects + 1

\* connect() succeeds; run() sets running, start_time and buffer and calls
\* init_display()
ConnectOk ==
    /\ pc = "DISCONNECTED"
    /\ socket' = "socket"
    /\ fd' = "connected"
    /\ running' = TRUE
    /\ LET r == ReadClock(now, ticks)
           d == InitDisplay(display_initialized, console, display)
       IN  /\ now' = r[1]
           /\ ticks' = r[2]
           /\ start_time' = Some(r[1])
           /\ display_initialized' = d[1]
           /\ console' = d[2]
           /\ display' = d[3]
    /\ buffer' = << >>
    /\ pc' = "STREAMING"
    /\ last' = "ConnectOk"
    /\ UNCHANGED << data_count, rate_history, summary, feed, received,
                    consumed, rendered, candidate >>
    /\ connects' = connects + 1

\* recv returns a chunk that decodes: it is appended to the buffer
RecvData ==
    /\ pc = "STREAMING"
    /\ running
    /\ feed # << >>
    /\ Len(Head(feed)) \in 1..RecvSize
    /\ ~Contains(Head(feed), BadByte)
    /\ buffer' = buffer \o Head(feed)
    /\ feed' = Tail(feed)
    /\ received' = Append(received, Head(feed))
    /\ pc' = "EXTRACTING"
    /\ last' = "RecvData"
    /\ UNCHANGED << socket, fd, running, data_count, start_time, rate_history,
                    display_initialized, display, console, summary, ticks, now,
                    consumed, rendered,
                    connects, candidate >>

\* the status line of the "except Exception" handler
ErrorStatus == Text("Error")

\* update_field(18, 16, text, 20) of the two handlers that break
\* faulty variant: the handler breaks without writing the status line
WriteStatusMutantSkip(disp, text) == disp

WriteStatus(disp, text) == [ disp EXCEPT ![StatusCell] = text ]

\* recv returns bytes that are not UTF-8: decode raises, the handler of
\* "except Exception" writes the status line and breaks
RecvUndecodable ==
    /\ pc = "STREAMING"
    /\ running
    /\ feed # << >>
    /\ Len(Head(feed)) \in 1..RecvSize
    /\ Contains(Head(feed), BadByte)
    /\ feed' = Tail(feed)
    /\ received' = Append(received, Head(feed))
    /\ display' = WriteStatus(display, ErrorStatus)
    /\ console' = Append(console, "status: Error")
    /\ pc' = "ERROR"
    /\ last' = "RecvUndecodable"
    /\ UNCHANGED << socket, fd, running, data_count, start_time, rate_history,
                    display_initialized, buffer, summary, ticks, now, consumed,
                    rendered,
                    connects, candidate >>

\* recv raises a socket error: the same handler
RecvError ==
    /\ pc = "STREAMING"
    /\ running
    /\ display' = WriteStatus(display, ErrorStatus)
    /\ console' = Append(console, "status: Error")
    /\ pc' = "ERROR"
    /\ last' = "RecvError"
    /\ UNCHANGED << socket, fd, running, data_count, start_time, rate_history,
                    display_initialized, buffer, summary, feed, ticks, now,
                    received, consumed, rendered,
                    connects, candidate >>

\* recv returns no bytes once the server has sent everything and closed
RecvClosed ==
    /\ pc = "STREAMING"
    /\ running
    /\ feed = << >>
    /\ display' = WriteStatus(display, Text("Server disconnected"))
    /\ console' = Append(console, "status: Server disconnected")
    /\ pc' = "CLOSED_BY_PEER"
    /\ last' = "RecvClosed"
    /\ UNCHANGED << socket, fd, running, data_count, start_time, rate_history,
                    display_initialized, buffer, summary, feed, ticks, now,
                    received, consumed, rendered,
                    connects, candidate >>

\* faulty variant: the timeout caught by the "except Exception" handler
RecvTimeoutMutantError ==
    /\ pc = "STREAMING"
    /\ running
    /\ display' = WriteStatus(display, ErrorStatus)
    /\ console' = Append(console, "status: Error")
    /\ pc' = "ERROR"
    /\ last' = "RecvTimeout"
    /\ UNCHANGED << socket, fd, running, data_count, start_time, rate_history,
                    display_initialized, buffer, summary, feed, ticks, now,
                    received, consumed, rendered, connects, candidate >>

\* recv times out: continue
RecvTimeout ==
    /\ pc = "STREAMING"
    /\ running
    /\ pc' = "STREAMING"
    /\ last' = "RecvTimeout"
    /\ UNCHANGED << socket, fd, running, data_count, start_time, rate_history,
                    display_initialized, buffer, display, console, summary,
                    feed, ticks, now, received, consumed, rendered,
                    connects, candidate >>

-----------------------------------------------------------------------------
(* The record-extraction loop of run() and update_display                  *)

\* line, buffer = buffer.split('\n', 1)
\* faulty variant: the line is taken but the buffer is not cut
NewlineFrameMutantKeep(buf) == << SplitOnce(buf, NL)[1], buf >>

NewlineFrame(buf) == SplitOnce(buf, NL)

\* parts = buffer.split(','), for at least 6 parts:
\* << ','.join(parts[:6]), ','.join(parts[6:]) if len(parts) > 6 else "" >>
\* faulty variant: the 6 parts are taken but the buffer is not cut
CommaFrameMutantKeep(buf) ==
    << Join(SubSeq(Split(buf, Comma), 1, 6), Comma), buf >>

\* faulty variant: the remainder taken from the 8th part on
CommaFrameMutantSkips(buf) ==
    LET parts == Split(buf, Comma)
    IN  << Join(SubSeq(parts, 1, 6), Comma),
           IF Len(parts) > 7 THEN Join(SubSeq(parts, 8, Len(parts)), Comma)
           ELSE << >> >>

CommaFrame(buf) ==
    LET parts == Split(buf, Comma)
    IN  << Join(SubSeq(parts, 1, 6), Comma),
           IF Len(parts) > 6 THEN Join(SubSeq(parts, 7, Len(parts)), Comma)
           ELSE << >> >>

\* line.strip(), then "if line and ',' in line": parse_data(line), else None
Candidate(line0) ==
    LET line == Strip(line0)
    IN  IF line # << >> /\ Contains(line, Comma) THEN ParseData(line) ELSE None

\* update_display(data), for the candidate line0 that stood at the stream
\* offsets from..to
UpdateDisplay(line0, from, to, data) ==
    LET r    == ReadClock(now, ticks)
        h    == DequeAppend(rate_history, r[1])
        rate == CalculateRate(h)
    IN  /\ data_count' = data_count + 1
        /\ now' = r[1]
        /\ ticks' = r[2]
        /\ rate_history' = h
        /\ display' = DisplayOf(display, data, data_count + 1, r[1], rate)
        /\ rendered' = Append(rendered,
               [ line |-> line0, from |-> from, to |-> to, rec |-> data,
                 time |-> r[1], count |-> data_count + 1, rate |-> rate ])

\* faulty variant: a candidate that does not parse is counted
ProcessMutantCounts(line0, from, to) ==
    LET parsed_data == Candidate(line0)
    IN  IF parsed_data # None
        THEN UpdateDisplay(line0, from, to, parsed_data[1])
        ELSE /\ data_count' = data_count + 1
             /\ UNCHANGED << now, ticks, rate_history, display, rendered >>

\* faulty variant: a candidate that does not parse is reported on the
\* status line
ProcessMutantReports(line0, from, to) ==
    LET parsed_data == Candidate(line0)
    IN  IF parsed_data # None
        THEN UpdateDisplay(line0, from, to, parsed_data[1])
        ELSE /\ display' = WriteStatus(display, ErrorStatus)
             /\ UNCHANGED << data_count, now, ticks, rate_history, rendered >>

\* "if parsed_data: self.update_display(parsed_data)"
Process(line0, from, to) ==
    LET parsed_data == Candidate(line0)
    IN  IF parsed_data # None
        THEN UpdateDisplay(line0, from, to, parsed_data[1])
        ELSE UNCHANGED << data_count, now, ticks, rate_history, display, rendered >>

\* one iteration that finds a newline in the buffer
ExtractLine ==
    /\ pc = "EXTRACTING"
    /\ Contains(buffer, NL)
    /\ LET f == NewlineFrame(buffer)
       IN  /\ candidate' = Some(f[1])
           /\ buffer' = f[2]
           /\ consumed' = consumed + (Len(buffer) - Len(f[2]))
           /\ Process(f[1], consumed, consumed + Len(f[1]))
    /\ pc' = "EXTRACTING"
    /\ last' = "ExtractLine"
    /\ UNCHANGED << socket, fd, running, start_time, display_initialized,
                    console, summary, feed, received, connects >>

\* one iteration that finds no newline and at least 6 comma-separated parts
ExtractTokens ==
    /\ pc = "EXTRACTING"
    /\ ~Contains(buffer, NL)
    /\ Contains(buffer, Comma)
    /\ Len(Split(buffer, Comma)) >= 6
    /\ LET f == CommaFrame(buffer)
       IN  /\ candidate' = Some(f[1])
           /\ buffer' = f[2]
           /\ consumed' = consumed + (Len(buffer) - Len(f[2]))
           /\ Process(f[1], consumed, consumed + Len(f[1]))
    /\ pc' = "EXTRACTING"
    /\ last' = "ExtractTokens"
    /\ UNCHANGED << socket, fd, running, start_time, display_initialized,
                    console, summary, feed, received, connects >>

\* faulty variant: the loop also breaks on 6 parts
ExtractBreakMutantEarly ==
    /\ pc = "EXTRACTING"
    /\ ~Contains(buffer, NL)
    /\ Contains(buffer, Comma)
    /\ Len(Split(buffer, Comma)) < 7
    /\ pc' = "STREAMING"
    /\ last' = "ExtractBreak"
    /\ UNCHANGED << socket, fd, running, data_count, start_time, rate_history,
                    display_initialized, buffer, display, console, summary,
                    feed, ticks, now, received, consumed, rendered,
                    connects, candidate >>

\* no newline and fewer than 6 parts: break, back to "while self.running"
ExtractBreak ==
    /\ pc = "EXTRACTING"
    /\ ~Contains(buffer, NL)
    /\ Contains(buffer, Comma)
    /\ Len(Split(buffer, Comma)) < 6
    /\ pc' = "STREAMING"
    /\ last' = "ExtractBreak"
    /\ UNCHANGED << socket, fd, running, data_count, start_time, rate_history,
                    display_initialized, buffer, display, console, summary,
                    feed, ticks, now, received, consumed, rendered,
                    connects, candidate >>

\* neither a newline nor a comma: the loop condition is false
ExtractDone ==
    /\ pc = "EXTRACTING"
    /\ ~Contains(buffer, NL)
    /\ ~Contains(buffer, Comma)
    /\ pc' = "STREAMING"
    /\ last' = "ExtractDone"
    /\ UNCHANGED << socket, fd, running, data_count, start_time, rate_history,
                    display_initialized, buffer, display, console, summary,
                    feed, ticks, now, received, consumed, rendered,
                    connects, candidate >>

-----------------------------------------------------------------------------
(* Leaving the loop                                                        *)

\* KeyboardInterrupt inside the loop, raised while recv waits or between two
\* iterations of the extraction loop: the handler moves the cursor below the
\* box and prints "Stopped by user"; the status line is not written
Interrupt ==
    /\ pc \in { "STREAMING", "EXTRACTING" }
    /\ console' = console \o << "cursor below box", "Stopped by user" >>
    /\ pc' = "INTERRUPTED"
    /\ last' = "Interrupt"
    /\ UNCHANGED << socket, fd, running, data_count, start_time, rate_history,
                    display_initialized, buffer, display, summary, feed, ticks,
                    now, received, consumed, rendered,
                    connects, candidate >>

\* the prints of the finally block
\* faulty variant: the summary printed by the handler and by finally
PrintSummaryMutantTwice(cons) == cons \o << "summary", "summary" >>

PrintSummary(cons) == Append(cons, "summary")

\* disconnect(): << running', socket', fd' >>
\* faulty variant: the attribute cleared without close()
DisconnectMutantLeak(sock, f) == << FALSE, "None", f >>

Disconnect(sock, f) ==
    << FALSE, "None", IF sock # "None" THEN "closed" ELSE f >>

\* the finally block: the summary (two reads of the clock), then disconnect()
Finally ==
    /\ pc \in { "CLOSED_BY_PEER", "ERROR", "INTERRUPTED" }
    /\ LET r1 == ReadClock(now, ticks)
           r2 == ReadClock(r1[1], r1[2])
           d  == Disconnect(socket, fd)
       IN  /\ now' = r2[1]
           /\ ticks' = r2[2]
           /\ summary' = Some([ total |-> data_count,
                                average |-> << data_count * TicksPerSecond,
                                               Max(TicksPerSecond, r1[1] - start_time[1]) >>,
                                duration |-> r2[1] - start_time[1] ])
           /\ console' = PrintSummary(console)
           /\ running' = d[1]
           /\ socket' = d[2]
           /\ fd' = d[3]
    /\ pc' = "TERMINATED"
    /\ last' = "Finally"
    /\ UNCHANGED << data_count, start_time, rate_history, display_initialized,
                    buffer, display, feed, received, consumed, rendered,
                    connects, candidate >>

Extract == ExtractLine \/ ExtractTokens \/ ExtractBreak \/ ExtractDone

Next ==
    \/ ConnectFail
    \/ ConnectOk
    \/ RecvData
    \/ RecvUndecodable
    \/ RecvError
    \/ RecvClosed
    \/ RecvTimeout
    \/ ExtractLine
    \/ ExtractTokens
    \/ ExtractBreak
    \/ ExtractDone
    \/ Interrupt
    \/ Finally

Spec == Init /\ [][Next]_vars

\* run() keeps running: once the loop is left, by break or by the interrupt
\* handler, the finally block is executed.  What recv returns and whether the
\* user interrupts is up to the environment and is not fair.
FairSpec == Spec /\ WF_vars(Finally)

TypeOK ==
    /\ pc \in PcValues
    /\ socket \in { "None", "socket" }
    /\ fd \in { "none", "unconnected", "connected", "closed" }
    /\ running \in BOOLEAN
    /\ data_count \in Nat
    /\ Len(rate_history) <= HistoryMax
    /\ display_initialized \in BOOLEAN

-----------------------------------------------------------------------------
(* Properties                                                              *)

\* everything recv has returned that decoded, as one text
Decodes(chunk) == ~Contains(chunk, BadByte)
Stream == Concat(SelectSeq(received, Decodes))

Count(seq, x) == Cardinality({ i \in 1..Len(seq) : seq[i] = x })
Summaries == Count(console, "summary")
Frames == Count(console, "frame")
Printed(x) == \E i \in 1..Len(console) : console[i] = x

Released == fd = "closed" /\ socket = "None" /\ ~running

\* C1: a zero-length read during streaming ends the session: the run leaves
\* the receive loop and reaches TERMINATED with the socket closed and running
\* false, and the summary is printed exactly once (not before the session
\* ends, once when it has ended, never twice).
C1_ZeroReadTerminatesOnce ==
    /\ (pc = "CLOSED_BY_PEER") ~> (pc = "TERMINATED")
    /\ [](Summaries <= 1)
    /\ [](Printed("status: Server disconnected") =>
            /\ pc \in { "CLOSED_BY_PEER", "TERMINATED" }
            /\ pc = "CLOSED_BY_PEER" => Summaries = 0
            /\ pc = "TERMINATED" => Summaries = 1 /\ Released)

C1_Witness ==
    /\ pc = "TERMINATED"
    /\ Printed("status: Server disconnected")
    /\ Summaries = 1
    /\ Len(rendered) >= 1

\* the records rendered, as parse_data made them
RenderedRecs == [ i \in 1..Len(rendered) |-> rendered[i].rec ]

\* p is a proper, non-empty prefix of l
ProperPrefix(p, l) == Len(p) \in 1..(Len(l) - 1) /\ p = SubSeq(l, 1, Len(p))

\* C2: a valid newline-terminated line delivered in two chunks, cut at any
\* place, gives no record from the first chunk alone and exactly one record,
\* with the six values of the line, once both chunks are in the buffer.
C2_SplitLineOneRecord ==
    \A l \in SplitLines :
        (Len(received) >= 1 /\ ProperPrefix(received[1], l)) =>
            /\ Len(received) = 1 => rendered = << >>
            /\ (Len(received) = 2 /\ received[1] \o received[2] = l
                    /\ pc = "STREAMING") =>
                 RenderedRecs = ParseData(l)

\* C2 at the place the specification names: "10.5,2.3,25.0,1.5" and then
\* "00,1.480,50.2\n" give one record, none before the second chunk
C2_ExampleSplit ==
    (Len(received) >= 1 /\ received[1] = SubSeq(ExampleLine, 1, 17)) =>
        /\ Len(received) = 1 => rendered = << >>
        /\ (Len(received) = 2 /\ pc = "STREAMING") => RenderedRecs = ParseData(ExampleLine)

\* a token that float() accepts, or that more characters can still turn
\* into one
IsFloatPrefix(tok) ==
    LET s    == LStrip(tok)
        body == IF Len(s) > 0 /\ s[1] \in {"+", "-"} THEN Tail(s) ELSE s
    IN  IF s # RStrip(s) THEN ParseFloat(s) # FloatError
        ELSE \/ /\ \A i \in 1..Len(body) : body[i] \in Digits \cup {"."}
                /\ Cardinality({i \in 1..Len(body) : body[i] = "."}) <= 1
             \/ \E w \in { << "n", "a", "n" >>,
                           << "i", "n", "f", "i", "n", "i", "t", "y" >> } :
                    Len(body) <= Len(w) /\ body = SubSeq(w, 1, Len(body))

\* text with no newline that is the beginning of a valid record line
RecordPrefix(t) ==
    LET toks == Split(t, Comma)
    IN  /\ ~Contains(t, NL)
        /\ Len(toks) <= 6
        /\ \A i \in 1..(Len(toks) - 1) : ParseFloat(toks[i]) # FloatError
        /\ IsFloatPrefix(toks[Len(toks)])

\* the candidate an extraction step takes from the buffer, raw
CandidateOf(buf) ==
    IF Contains(buf, NL) THEN SplitOnce(buf, NL)[1]
    ELSE Join(SubSeq(Split(buf, Comma), 1, Min(6, Len(Split(buf, Comma)))), Comma)

\* a line that has fewer than 6 tokens or a token float() rejects
Malformed(line) ==
    LET toks == Split(Strip(line), Comma)
    IN  Len(toks) < 6 \/ \E i \in 1..Len(toks) : ParseFloat(toks[i]) = FloatError

\* C3: a step of the extraction loop on input with fewer than 6 tokens or a
\* token that fails the numeric parse yields no record; input that can still
\* become a record (no newline, fewer than 6 tokens) stays in the buffer
\* unchanged; and what a step discards without a record is definitely
\* garbage, never the beginning of a valid record.
C3_NoRecordNoOverconsumption ==
    [][ pc = "EXTRACTING" =>
          /\ Malformed(CandidateOf(buffer)) => rendered' = rendered
          /\ (~Contains(buffer, NL) /\ Len(Split(buffer, Comma)) < 6) =>
                buffer' = buffer
          /\ (rendered' = rendered /\ consumed' > consumed) =>
                ~RecordPrefix(SubSeq(buffer, 1, consumed' - consumed)) ]_vars

\* C3 without its last clause: no record from malformed input, and
\* retryable input is left in the buffer
C3_NoRecordAndRetryableKept ==
    [][ pc = "EXTRACTING" =>
          /\ Malformed(CandidateOf(buffer)) => rendered' = rendered
          /\ (~Contains(buffer, NL) /\ Len(Split(buffer, Comma)) < 6) =>
                buffer' = buffer ]_vars

\* C4: a candidate is accepted only if it has exactly 6 comma-separated
\* fields and all 6 are finite numbers; any other candidate changes neither
\* the display nor the counters.
C4_OnlyFiniteSixFieldRecords ==
    /\ \A i \in 1..Len(rendered) :
          /\ Len(Split(Strip(rendered[i].line), Comma)) = 6
          /\ \A k \in DOMAIN rendered[i].rec : IsFinite(rendered[i].rec[k])
    /\ data_count = Len(rendered)

\* C4 without finiteness: every accepted candidate has exactly 6 fields that
\* float() accepts
C4_SixParsedFields ==
    /\ \A i \in 1..Len(rendered) :
          LET toks == Split(Strip(rendered[i].line), Comma)
          IN  Len(toks) = 6 /\ \A j \in 1..6 : ParseFloat(toks[j]) # FloatError
    /\ data_count = Len(rendered)

\* the labels of the wire format, in its order: SLED current, photo
\* current, SLED temperature, target SAG power, SAG power, TEC current
WireOrder ==
    << "SLED_Current (mA)", "Photo Current (uA)", "SLED_Temp (C)",
       "Target SAG_PWR (V)", "SAG_PWR (V)", "TEC_Current (mA)" >>

\* the record of "10.5,2.3,25.0,1.500,1.480,50.2"
ExampleRecord ==
    [ k \in { WireOrder[i] : i \in 1..6 } |->
        CASE k = "SLED_Current (mA)" -> << "fin", 105, 1 >>
          [] k = "Photo Current (uA)" -> << "fin", 23, 1 >>
          [] k = "SLED_Temp (C)" -> << "fin", 25, 0 >>
          [] k = "Target SAG_PWR (V)" -> << "fin", 15, 1 >>
          [] k = "SAG_PWR (V)" -> << "fin", 148, 2 >>
          [] k = "TEC_Current (mA)" -> << "fin", 502, 1 >> ]

\* C5: every record parse_data yields binds the i-th token of its line to
\* the i-th label of the wire order, for i = 1..6, and to no other label;
\* the line "10.5,2.3,25.0,1.500,1.480,50.2" gives SLED current 10.5, photo
\* current 2.3, SLED temperature 25.0, target SAG power 1.5, SAG power 1.48
\* and TEC current 50.2.
C5_FieldsInWireOrder ==
    \A n \in 1..Len(rendered) :
        LET toks == Split(Strip(rendered[n].line), Comma)
            rec  == rendered[n].rec
        IN  /\ DOMAIN rec = { WireOrder[i] : i \in 1..6 }
            /\ Len(toks) = 6
            /\ \A i \in 1..6 : rec[WireOrder[i]] = ParseFloat(toks[i])
            /\ Strip(rendered[n].line) = Strip(ExampleLine) => rec = ExampleRecord

C5_Witness ==
    /\ Len(rendered) = 1
    /\ Strip(rendered[1].line) = Strip(ExampleLine)
    /\ rendered[1].rec["Target SAG_PWR (V)"] = << "fin", 15, 1 >>
    /\ rendered[1].rec["TEC_Current (mA)"] = << "fin", 502, 1 >>

\* C6: accepted records are rendered in the order their text arrived: the
\* n-th record rendered is the n-th update of the display (count n, one
\* record per update), its line is the text of the stream at the offsets it
\* was taken from, and those offsets lie after the line of the record
\* rendered before it, so no text is rendered twice or out of order.
C6_RenderedInArrivalOrder ==
    /\ \A n \in 1..Len(rendered) :
          /\ rendered[n].count = n
          /\ rendered[n].from < rendered[n].to
          /\ rendered[n].to <= Len(Stream)
          /\ rendered[n].line = SubSeq(Stream, rendered[n].from + 1, rendered[n].to)
          /\ n > 1 => rendered[n - 1].to <= rendered[n].from
    /\ data_count = Len(rendered)
    /\ consumed + Len(buffer) = Len(Stream)
    /\ buffer = SubSeq(Stream, consumed + 1, Len(Stream))

C6_Witness ==
    /\ Len(rendered) = 3
    /\ Len(received) = 2
    /\ rendered[1].to < rendered[2].from
    /\ rendered[2].to < rendered[3].from

\* C7: every way out of STREAMING leads to TERMINATED, where the socket is
\* released and the summary has been printed; from TERMINATED nothing more is
\* received or rendered and the state is never left.
C7_ExitsConvergeOnTerminated ==
    /\ (pc \in { "CLOSED_BY_PEER", "ERROR", "INTERRUPTED" }) ~> (pc = "TERMINATED")
    /\ [](pc = "TERMINATED" => Released /\ Summaries = 1 /\ summary # None)
    /\ [][ pc = "TERMINATED" =>
             /\ pc' = "TERMINATED"
             /\ received' = received
             /\ rendered' = rendered
             /\ data_count' = data_count ]_vars

C7_Witness ==
    /\ pc = "TERMINATED"
    /\ Printed("status: Error")
    /\ Released
    /\ Len(rendered) >= 1

TerminalStatus == { Text("Server disconnected"), ErrorStatus }

\* C8 as stated: whenever the summary is printed, on any of the three
\* causes, the status line was overwritten with a terminal message before.
C8_StatusOverwrittenBeforeSummary ==
    \A i \in 1..Len(console) :
        console[i] = "summary" =>
            /\ \E j \in 1..(i - 1) :
                  console[j] \in { "status: Server disconnected", "status: Error" }
            /\ display[StatusCell] \in TerminalStatus

\* C8 amended: the summary is the last thing printed, and what is printed
\* right before it is the terminal status message on peer close and on
\* error, then standing on the status line, and "Stopped by user" on a user
\* interrupt, with the status line left as the last record or the frame
\* set it.
C8_TerminalMessageThenSummary ==
    \A i \in 1..Len(console) :
        console[i] = "summary" =>
            /\ i = Len(console)
            /\ i > 1
            /\ console[i - 1] \in { "status: Server disconnected", "status: Error",
                                    "Stopped by user" }
            /\ console[i - 1] = "status: Server disconnected" =>
                  display[StatusCell] = Text("Server disconnected")
            /\ console[i - 1] = "status: Error" => display[StatusCell] = ErrorStatus
            /\ console[i - 1] = "Stopped by user" =>
                  display[StatusCell] \notin TerminalStatus

C8_Witness ==
    /\ Printed("summary")
    /\ Printed("Stopped by user")
    /\ display[StatusCell] = Text("Slow")

\* C9 as stated: the frame is emitted exactly once, on the first valid
\* record and not before a record has been accepted.
C9_FrameOnFirstRecord ==
    Frames = IF Len(rendered) >= 1 THEN 1 ELSE 0

\* C9 amended: the frame is emitted exactly once per session, by run()
\* right after the connection is made and before anything is received; no
\* record re-emits it.
C9_FrameOnceAtStart ==
    /\ Frames = IF pc \in { "DISCONNECTED", "RETURNED" } THEN 0 ELSE 1
    /\ display_initialized = (Frames = 1)
    /\ Frames = 1 => console[1] = "frame"
    /\ last = "ConnectOk" => Frames = 1 /\ received = << >> /\ rendered = << >>

C9_Witness ==
    /\ Len(rendered) >= 2
    /\ Frames = 1
    /\ pc = "STREAMING"

\* the times of the last n records rendered
LastTimes(n) ==
    [ i \in 1..n |-> rendered[Len(rendered) - n + i].time ]

\* C10: the arrival history never holds more than 50 timestamps: after n
\* accepted records it holds the timestamps of the most recent min(n, 50)
\* of them, in arrival order.
C10_HistoryIsLastFifty ==
    /\ Len(rate_history) <= 50
    /\ rate_history = LastTimes(Min(Len(rendered), 50))

C10_Witness ==
    /\ Len(rendered) = 51
    /\ Len(rate_history) = 50
    /\ rate_history[1] = rendered[2].time
    /\ rate_history[1] # rendered[1].time

\* the rate computed for the record rendered last, and the history it was
\* computed from (the history changes only when a record is rendered)
LastRate == rendered[Len(rendered)].rate
TimeSpan == rate_history[Len(rate_history)] - rate_history[1]

\* the rate r, a pair << num, den >>, is the fraction n / d per tick span
IsRate(r, n, d) == r[2] > 0 /\ r[1] * d = n * TicksPerSecond * r[2]
IsZeroRate(r) == r[2] > 0 /\ r[1] = 0

\* four timestamps one second apart
OneSecondApart(h) ==
    /\ Len(h) = 4
    /\ \A i \in 1..4 : h[i] = h[1] + (i - 1) * TicksPerSecond

\* C11 as stated: calculate_rate is 0.0 on a history of fewer than 2
\* entries and (entries - 1) / (newest - oldest) on every other history.
C11_RateIsReference ==
    rendered # << >> =>
        IF Len(rate_history) < 2 THEN IsZeroRate(LastRate)
        ELSE /\ TimeSpan # 0
             /\ IsRate(LastRate, Len(rate_history) - 1, TimeSpan)

\* C11: calculate_rate is 0.0 on a history of fewer than 2 entries; on a
\* longer history whose newest timestamp is later than its oldest it is
\* (entries - 1) / (newest - oldest), and 0.0 when the newest is not later;
\* on [t0, t0+1, t0+2, t0+3] it is exactly 1.0.
C11_RateIsGuardedReference ==
    rendered # << >> =>
        /\ IF Len(rate_history) < 2 \/ TimeSpan <= 0 THEN IsZeroRate(LastRate)
           ELSE IsRate(LastRate, Len(rate_history) - 1, TimeSpan)
        /\ OneSecondApart(rate_history) => LastRate[1] = LastRate[2]

C11_Witness ==
    /\ Len(rendered) = 4
    /\ OneSecondApart(rate_history)
    /\ IsRate(LastRate, 3, 3 * TicksPerSecond)

\* C12: a receive timeout takes no action: the buffer, the message count,
\* the arrival history and the displayed cells are unchanged, nothing is
\* printed or consumed, the session stays in STREAMING and the loop goes
\* back to the receive.
C12_TimeoutTakesNoAction ==
    [][ last' = "RecvTimeout" =>
            /\ pc = "STREAMING"
            /\ pc' = "STREAMING"
            /\ running'
            /\ UNCHANGED << buffer, data_count, rate_history, display, console,
                            rendered, feed, received, consumed, summary,
                            socket, fd >> ]_vars

C12_Witness ==
    /\ last = "RecvTimeout"
    /\ pc = "STREAMING"
    /\ buffer # << >>
    /\ Len(rendered) >= 1

\* a candidate that is not a record line: empty after trimming, without a
\* comma, not of 6 tokens, or with a token that fails the numeric parse
NotRecordLine(line) ==
    LET toks == Split(Strip(line), Comma)
    IN  \/ Strip(line) = << >>
        \/ ~Contains(line, Comma)
        \/ Len(toks) # 6
        \/ \E i \in 1..Len(toks) : ParseFloat(Strip(toks[i])) = FloatError

\* the step taken is an iteration of the extraction loop that took a
\* candidate from the buffer
TookCandidate == pc = "EXTRACTING" /\ last' \in { "ExtractLine", "ExtractTokens" }

\* C13: a malformed candidate is silently dropped: the message count, the
\* arrival history and every displayed cell are unchanged by it, nothing is
\* printed, no record is rendered, and the session stays in the streaming
\* loop; a valid line that follows a malformed one is accepted.
C13_MalformedSilentlyDropped ==
    [][ /\ (TookCandidate /\ NotRecordLine(candidate'[1])) =>
              /\ UNCHANGED << data_count, rate_history, display, console,
                              rendered, summary, running >>
              /\ pc' = "EXTRACTING"
        /\ (received' = << BadTokenLine, ValidLine >> /\ pc' = "STREAMING") =>
              /\ Len(rendered') = 1
              /\ rendered'[1].line \o << NL >> = ValidLine ]_vars

C13_Witness ==
    /\ received = << BadTokenLine, ValidLine >>
    /\ pc = "STREAMING"
    /\ data_count = 1
    /\ display[SledCurrentCell] = FormatFixed(ParseFloat(<< "1" >>), 2)
    /\ display[StatusCell] = Text("Slow")

\* C14: a failed connect is terminal and is not retried: connect is called
\* once in a run; after it has failed the run is over (no step follows),
\* the streaming loop was never entered, nothing was received, no frame was
\* drawn, no record rendered and no summary printed.
C14_ConnectFailureTerminal ==
    [][ /\ connects' <= 1
        /\ pc # "RETURNED"           \* no step is taken once run() has returned
        /\ (pc' = "RETURNED") =>
              /\ pc = "DISCONNECTED"
              /\ connects' = 1
              /\ ~running'
              /\ start_time' = None
              /\ received' = << >>
              /\ rendered' = << >>
              /\ Frames' = 0
              /\ Summaries' = 0
              /\ console' = << "connect_failed" >> ]_vars

C14_Witness ==
    /\ pc = "RETURNED"
    /\ last = "ConnectFail"
    /\ connects = 1
    /\ feed # << >>

\* the rate r, a pair << num, den >> with den > 0, against k per second
RateAbove(r, k) == r[1] > k * r[2]
RateIs(r, k) == r[1] = k * r[2]

\* the indicator the status line shows for a rate
Indicator(r) ==
    IF RateAbove(r, 30) THEN Text("Excellent")
    ELSE IF RateAbove(r, 10) THEN Text("Good")
    ELSE Text("Slow")

\* C15: the status line written for an accepted record is determined by the
\* rate computed for that record alone: above 30 "Excellent", otherwise above
\* 10 "Good", otherwise "Slow"; a rate of exactly 30 shows "Good", of exactly
\* 10 "Slow", and the first record of a session (rate 0) shows "Slow".
C15_StatusFromRate ==
    [][ rendered' # rendered =>
            LET r == rendered'[Len(rendered')].rate
            IN  /\ r[2] > 0
                /\ display'[StatusCell] = Indicator(r)
                /\ RateIs(r, 30) => display'[StatusCell] = Text("Good")
                /\ RateIs(r, 10) => display'[StatusCell] = Text("Slow")
                /\ Len(rendered') = 1 =>
                      RateIs(r, 0) /\ display'[StatusCell] = Text("Slow") ]_vars

C15_Witness ==
    /\ Len(rendered) = 4
    /\ last = "ExtractLine"
    /\ RateIs(rendered[1].rate, 0)
    /\ RateIs(rendered[2].rate, 10)
    /\ RateAbove(rendered[3].rate, 10)
    /\ RateIs(rendered[4].rate, 30)
    /\ display[StatusCell] = Text("Good")

\* the number of commas in a text (its comma-separated tokens, less one)
Commas(t) == Cardinality({ i \in 1..Len(t) : t[i] = Comma })

\* the step taken is one pass of the extraction loop
ExtractionStep == pc = "EXTRACTING" /\ pc' \in { "EXTRACTING", "STREAMING" }

\* C16: one extraction step frames the buffer as follows. With a newline in
\* the buffer the candidate is the text before the first newline and the
\* buffer becomes the text after it. Otherwise, with k >= 6 comma-separated
\* tokens, the candidate is the first 6 tokens and the buffer becomes tokens
\* 7..k joined by commas, empty when k = 6: candidate and remainder put back
\* together are the buffer, token for token. Otherwise nothing is taken.
C16_FramingRule ==
    [][ ExtractionStep =>
          IF Contains(buffer, NL)
          THEN /\ candidate' # None
               /\ ~Contains(candidate'[1], NL)
               /\ buffer = candidate'[1] \o << NL >> \o buffer'
          ELSE IF Commas(buffer) >= 5
          THEN /\ candidate' # None
               /\ Commas(candidate'[1]) = 5
               /\ IF Commas(buffer) = 5
                  THEN buffer' = << >> /\ buffer = candidate'[1]
                  ELSE /\ buffer = candidate'[1] \o << Comma >> \o buffer'
                       /\ Split(buffer, Comma) =
                              Split(candidate'[1], Comma) \o Split(buffer', Comma)
          ELSE buffer' = buffer /\ candidate' = candidate ]_vars

C16_Witness ==
    /\ received = << TailTokens, BareRecord >>
    /\ last = "ExtractTokens"
    /\ candidate = Some(TailTokens \o Csv(<< "7", "8", "9" >>))
    /\ buffer = Csv(<< "7", "8", "9" >>)

\* C17: the extraction loop terminates on every buffer: an iteration that
\* stays in the loop leaves the buffer strictly shorter, and every other
\* iteration leaves the loop with the buffer as it was.
C17_ExtractionShortensOrExits ==
    [][ ExtractionStep =>
          \/ pc' = "EXTRACTING" /\ Len(buffer') < Len(buffer)
          \/ pc' = "STREAMING" /\ buffer' = buffer ]_vars

C17_Witness ==
    /\ last = "ExtractDone"
    /\ pc = "STREAMING"
    /\ Len(received) = 2
    /\ Len(rendered) = 3
    /\ buffer = << >>

\* C18: whenever the loop is back at the receive the buffer holds no complete
\* candidate: no newline, and fewer than 6 comma-separated tokens, which is
\* at most 4 commas.
C18_NoCandidateAtReceive ==
    pc = "STREAMING" =>
        /\ ~Contains(buffer, NL)
        /\ Len(Split(buffer, Comma)) < 6
        /\ Commas(buffer) <= 4

C18_Witness ==
    /\ pc = "STREAMING"
    /\ last = "ExtractBreak"
    /\ Commas(buffer) = 4

\* the count agrees with the records rendered, the history with the count
CountAgrees ==
    /\ data_count = Len(rendered)
    /\ Len(rate_history) = Min(data_count, 50)
    /\ summary # None => summary[1].total = Len(rendered)

\* C19: in every reachable state the message count is the number of records
\* rendered so far and the history holds min(count, 50) entries; the count
\* changes only by +1, at an accepted record; and the total of the summary
\* is the number of records rendered.
C19_CountIsRecordsRendered ==
    [][ /\ CountAgrees
        /\ CountAgrees'
        /\ data_count' # data_count =>
              /\ data_count' = data_count + 1
              /\ TookCandidate
              /\ ~NotRecordLine(candidate'[1])
              /\ rendered' = Append(rendered, rendered'[data_count'])
              /\ rendered'[data_count'].count = data_count'
        /\ rendered' # rendered => data_count' # data_count ]_vars

C19_Witness ==
    /\ pc = "TERMINATED"
    /\ summary # None
    /\ summary[1].total = 52
    /\ Len(rendered) = 52
    /\ Len(rate_history) = 50

\* C20: calculate_rate never divides by zero and never returns a negative
\* rate: when the newest timestamp of the history equals the oldest or is
\* earlier (the clock stepped back) the rate is 0.0, and the step that
\* computes a rate stays in the streaming loop, never on the error path.
C20_RateNeverRaisesNorNegative ==
    [][ rendered' # rendered =>
          /\ LastRate'[2] > 0
          /\ LastRate'[1] >= 0
          /\ (Len(rate_history') >= 2 /\ TimeSpan' <= 0) => IsZeroRate(LastRate')
          /\ pc' = "EXTRACTING"
          /\ display'[StatusCell] # ErrorStatus ]_vars

C20_Witness ==
    /\ Len(rendered) = 3
    /\ rendered[2].time = rendered[1].time
    /\ rendered[3].time < rendered[1].time
    /\ IsZeroRate(rendered[2].rate)
    /\ IsZeroRate(rendered[3].rate)
    /\ pc = "EXTRACTING"
    /\ display[RateCell] = FormatRate(<< 0, 1 >>)

====
